---- MODULE Spec2Model ----
(***************************************************************************)
(* A model of noob_proxy.py: an aiohttp application that re-exposes an     *)
(* upstream chat/completions API.  One request slot is one inbound request *)
(* and the coroutine that serves it; every action is the code between two  *)
(* suspension points (await) of that coroutine, the CORS middleware        *)
(* included where the handler returns.                                     *)
(*                                                                         *)
(* Bytes are numbers 0..255, a body is a sequence of bytes.  A request     *)
(* body is a sequence of JSON lexemes (each lexeme stands for its bytes).  *)
(* Python's None is the string None below; no header value or lexeme of    *)
(* the model is that string.                                               *)
(***************************************************************************)
EXTENDS Integers, Sequences, FiniteSets, TLC

\* ------------------------------------------------------------- bounds
\* chunks the upstream body arrives in, at most
MaxChunks == 2
\* bytes per upstream chunk, at most
MaxChunkLen == 1
\* header lines of an inbound request (header filter specification)
MaxHdrs == 2
\* lexemes of the value of the one member of a request body object
MaxValLen == 3
\* lexemes of an arbitrary (mostly unparsable) request body
MaxGarbage == 2
\* seconds that pass in one step of the clock of an upstream call
TickSeconds == 100

None == "None"

\* ------------------------------------------------------------ helpers
Min(S) == CHOOSE x \in S : \A y \in S : x <= y
Max(S) == CHOOSE x \in S : \A y \in S : x >= y

SeqsUpTo(S, n) == UNION {[1..k -> S] : k \in 0..n}

RECURSIVE Concat(_)
Concat(ss) == IF ss = <<>> THEN <<>> ELSE Head(ss) \o Concat(Tail(ss))

IsPrefix(s, t) == Len(s) <= Len(t) /\ SubSeq(t, 1, Len(s)) = s

\* Python truthiness of a str-or-None
Truthy(x) == x # None /\ x # ""

\* ------------------------------------------------------------ headers
\* str.lower() on the header names of the model
Lower(k) ==
    CASE k \in {"Host", "host", "HOST"} -> "host"
      [] k \in {"Content-Length", "content-length"} -> "content-length"
      [] k \in {"Authorization", "authorization"} -> "authorization"
      [] k \in {"Accept", "accept"} -> "accept"
      [] k \in {"Origin", "origin"} -> "origin"
      [] k = "Access-Control-Request-Method" -> "access-control-request-method"
      [] k = "Access-Control-Request-Headers" -> "access-control-request-headers"
      [] OTHER -> k

\* request.headers.get(name): case-insensitive, the first line of that name
headers_get(hdrs, name) ==
    LET idx == {i \in DOMAIN hdrs : Lower(hdrs[i][1]) = Lower(name)}
    IN  IF idx = {} THEN None ELSE hdrs[Min(idx)][2]

\* {k: v for k, v in request.headers.items() if k.lower() not in {...}}:
\* a dict, so of the lines with one (exact) name the last value is kept
filter_headers(hdrs) ==
    LET kept == {i \in DOMAIN hdrs : Lower(hdrs[i][1]) \notin {"host", "content-length"}}
    IN  [k \in {hdrs[i][1] : i \in kept} |->
            hdrs[Max({i \in kept : hdrs[i][1] = k})][2]]

\* the (name, value) pairs of a dict
Pairs(d) == {<<k, d[k]>> : k \in DOMAIN d}

\* ----------------------------------------------------------- json.loads
StringLexemes == {"\"stream\"", "\"yes\"", "\"\""}
NumberLexemes == {"0", "1"}

PyFalse == <<"bool", "false">>
ParseFail == [ok |-> FALSE, val |-> <<"null">>, next |-> 0]
Parsed(v, n) == [ok |-> TRUE, val |-> v, next |-> n]

RECURSIVE ParseValue(_, _), ParseElements(_, _, _), ParseMembers(_, _, _)
ParseValue(t, i) ==
    IF i > Len(t) THEN ParseFail
    ELSE CASE t[i] \in {"true", "false"} -> Parsed(<<"bool", t[i]>>, i + 1)
           [] t[i] = "null" -> Parsed(<<"null">>, i + 1)
           [] t[i] \in NumberLexemes -> Parsed(<<"num", t[i]>>, i + 1)
           [] t[i] \in StringLexemes -> Parsed(<<"str", t[i]>>, i + 1)
           [] t[i] = "[" ->
                IF i + 1 <= Len(t) /\ t[i + 1] = "]"
                THEN Parsed(<<"list", <<>>>>, i + 2)
                ELSE ParseElements(t, i + 1, <<>>)
           [] t[i] = "{" ->
                IF i + 1 <= Len(t) /\ t[i + 1] = "}"
                THEN Parsed(<<"dict", <<>>>>, i + 2)
                ELSE ParseMembers(t, i + 1, <<>>)
           [] OTHER -> ParseFail

ParseElements(t, i, acc) ==
    LET v == ParseValue(t, i)
    IN  IF ~v.ok \/ v.next > Len(t) THEN ParseFail
        ELSE IF t[v.next] = "," THEN ParseElements(t, v.next + 1, Append(acc, v.val))
        ELSE IF t[v.next] = "]" THEN Parsed(<<"list", Append(acc, v.val)>>, v.next + 1)
        ELSE ParseFail

ParseMembers(t, i, acc) ==
    IF i + 1 > Len(t) \/ t[i] \notin StringLexemes \/ t[i + 1] # ":" THEN ParseFail
    ELSE LET v == ParseValue(t, i + 2)
         IN  IF ~v.ok \/ v.next > Len(t) THEN ParseFail
             ELSE IF t[v.next] = ","
                  THEN ParseMembers(t, v.next + 1, Append(acc, <<t[i], v.val>>))
             ELSE IF t[v.next] = "}"
                  THEN Parsed(<<"dict", Append(acc, <<t[i], v.val>>)>>, v.next + 1)
             ELSE ParseFail

\* json.loads(body): ok = FALSE is the exception it raises
json_loads(body) ==
    LET p == ParseValue(body, 1)
    IN  IF p.ok /\ p.next = Len(body) + 1 THEN p ELSE ParseFail

\* dict.get(key, default): of equal keys json.loads keeps the last
dict_get(members, key, default) ==
    LET idx == {i \in DOMAIN members : members[i][1] = key}
    IN  IF idx = {} THEN default ELSE members[Max(idx)][2]

\* bool(v) of a Python value
PyTruthy(v) ==
    CASE v[1] = "bool" -> v[2] = "true"
      [] v[1] = "null" -> FALSE
      [] v[1] = "num" -> v[2] # "0"
      [] v[1] = "str" -> v[2] # "\"\""
      [] v[1] \in {"list", "dict"} -> Len(v[2]) > 0

\* try: stream = json.loads(body).get("stream", False)
\* except Exception: stream = False      (only a dict has .get)
classify(body) ==
    LET j == json_loads(body)
    IN  IF ~j.ok THEN PyFalse
        ELSE IF j.val[1] # "dict" THEN PyFalse
        ELSE dict_get(j.val[2], "\"stream\"", PyFalse)

\* ------------------------------------------------------------- text codecs
DecodeFail == [ok |-> FALSE, text |-> <<>>]

\* bytes.decode("utf-8", errors="strict") for code points below 2^16
RECURSIVE utf8_decode(_)
utf8_decode(b) ==
    IF b = <<>> THEN [ok |-> TRUE, text |-> <<>>]
    ELSE LET n == IF b[1] < 128 THEN 1
                  ELSE IF b[1] \in 194..223 THEN 2
                  ELSE IF b[1] \in 224..239 THEN 3
                  ELSE 0
             cont == n > 0 /\ Len(b) >= n /\ \A j \in 2..n : b[j] \in 128..191
             cp == IF n = 1 THEN b[1]
                   ELSE IF n = 2 THEN (b[1] - 192) * 64 + (b[2] - 128)
                   ELSE (b[1] - 224) * 4096 + (b[2] - 128) * 64 + (b[3] - 128)
         IN  IF ~cont THEN DecodeFail
             ELSE IF n = 3 /\ (cp < 2048 \/ cp \in 55296..57343) THEN DecodeFail
             ELSE LET rest == utf8_decode(SubSeq(b, n + 1, Len(b)))
                  IN  IF rest.ok THEN [ok |-> TRUE, text |-> <<cp>> \o rest.text]
                      ELSE DecodeFail

\* bytes.decode("latin-1"): every byte is the code point of its value
latin1_decode(b) == [ok |-> TRUE, text |-> b]

\* str.encode("utf-8") for code points below 2^16
RECURSIVE utf8_encode(_)
utf8_encode(s) ==
    IF s = <<>> THEN <<>>
    ELSE LET cp == s[1]
             enc == IF cp < 128 THEN <<cp>>
                    ELSE IF cp < 2048 THEN <<192 + (cp \div 64), 128 + (cp % 64)>>
                    ELSE <<224 + (cp \div 4096), 128 + ((cp \div 64) % 64), 128 + (cp % 64)>>
         IN  enc \o utf8_encode(Tail(s))

\* ------------------------------------------------------------- responses
EmptyDict == [k \in {} |-> None]

NoResponse ==
    [kind |-> "none", status |-> 0, mime |-> None, charset |-> None,
     headers |-> EmptyDict, allowed_methods |-> <<>>, body |-> <<>>]

\* web.Response(body=..., status=..., content_type=..., headers=...)
web_Response(status, mime, charset, hdrs, body) ==
    [kind |-> "buffered", status |-> status, mime |-> mime, charset |-> charset,
     headers |-> hdrs, allowed_methods |-> <<>>, body |-> body]

\* web.Response(text=...): the text is encoded as UTF-8 and the charset set
web_Response_text(status, mime, text) ==
    web_Response(status, mime, "utf-8", EmptyDict, utf8_encode(text))

\* web.StreamResponse(status=..., headers={"Content-Type": "text/event-stream"})
web_StreamResponse(status) ==
    [kind |-> "stream", status |-> status, mime |-> "text/event-stream",
     charset |-> None, headers |-> EmptyDict, allowed_methods |-> <<>>,
     body |-> <<>>]

\* "405: Method Not Allowed"
MethodNotAllowedText ==
    <<52, 48, 53, 58, 32, 77, 101, 116, 104, 111, 100, 32, 78, 111, 116, 32,
      65, 108, 108, 111, 119, 101, 100>>

\* raise web.HTTPMethodNotAllowed(method=..., allowed_methods=...): the
\* exception is the response aiohttp sends
HTTPMethodNotAllowed(allowed_methods) ==
    [kind |-> "http_error", status |-> 405, mime |-> "text/plain",
     charset |-> "utf-8", headers |-> EmptyDict,
     allowed_methods |-> allowed_methods, body |-> MethodNotAllowedText]

\* "500 Internal Server Error"
ServerErrorText ==
    <<53, 48, 48, 32, 73, 110, 116, 101, 114, 110, 97, 108, 32, 83, 101, 114,
      118, 101, 114, 32, 69, 114, 114, 111, 114>>

\* an exception that is no HTTPException leaves the handler: aiohttp answers 500
ServerError ==
    [kind |-> "server_error", status |-> 500, mime |-> "text/plain",
     charset |-> "utf-8", headers |-> EmptyDict, allowed_methods |-> <<>>,
     body |-> ServerErrorText]

\* response.headers[name] = value
SetHeader(rsp, name, value) ==
    [rsp EXCEPT !.headers = (name :> value) @@ @]

\* the two CORS headers both cors_middleware and do_chat_completion set
AddCors(rsp) ==
    SetHeader(SetHeader(rsp, "Access-Control-Allow-Origin", "*"), "Vary", "Origin")

\* cors_middleware, after `response = await handler(request)` returned
cors_middleware(req, rsp, prepared) ==
    IF prepared THEN rsp
    ELSE IF Truthy(headers_get(req.headers, "Origin")) THEN AddCors(rsp)
    ELSE rsp

\* ------------------------------------------------------------- routes
chat_route == "/v1/chat/completions"
GetRoutes == {"/", "/health", "/v1", "/v1/models"}
Routes == GetRoutes \cup {chat_route}

\* the GET partial registered for every route
partial_options_get(path) == <<"GET">>

\* partial(options_handler, methods="GET") / methods="POST"; a methods
\* string "A, B" is the sequence <<"A", "B">>
partial_options_methods(path) == IF path = chat_route THEN <<"POST">> ELSE <<"GET">>

\* ", ".join(methods)
RECURSIVE JoinMethods(_)
JoinMethods(ms) ==
    IF ms = <<>> THEN ""
    ELSE IF Len(ms) = 1 THEN ms[1]
    ELSE ms[1] \o ", " \o JoinMethods(Tail(ms))

\* "OpenAI-compatible NVIDIA proxy (aiohttp) running."
RootText ==
    <<79, 112, 101, 110, 65, 73, 45, 99, 111, 109, 112, 97, 116, 105, 98, 108,
      101, 32, 78, 86, 73, 68, 73, 65, 32, 112, 114, 111, 120, 121, 32, 40, 97,
      105, 111, 104, 116, 116, 112, 41, 32, 114, 117, 110, 110, 105, 110, 103,
      46>>

\* "OK"
HealthText == <<79, 75>>

\* json.dumps({"object": "list", "endpoints": ["/v1/models", chat_route]})
RoutesJson ==
    <<123, 34, 111, 98, 106, 101, 99, 116, 34, 58, 32, 34, 108, 105, 115, 116,
      34, 44, 32, 34, 101, 110, 100, 112, 111, 105, 110, 116, 115, 34, 58, 32,
      91, 34, 47, 118, 49, 47, 109, 111, 100, 101, 108, 115, 34, 44, 32, 34,
      47, 118, 49, 47, 99, 104, 97, 116, 47, 99, 111, 109, 112, 108, 101, 116,
      105, 111, 110, 115, 34, 93, 125>>

\* ------------------------------------------------------------- upstream
NoUpstream == [status |-> 0, ctype |-> [mime |-> None, charset |-> None], chunks |-> <<>>]

Bytes == {65, 233}
Chunks == SeqsUpTo(Bytes, MaxChunkLen)
ChunkSeqs == SeqsUpTo(Chunks, MaxChunks)
UpstreamStatuses == {200, 400, 429}
UpstreamCTypes ==
    {[mime |-> None, charset |-> None],
     [mime |-> "application/json", charset |-> None],
     [mime |-> "text/plain", charset |-> "utf-8"],
     [mime |-> "text/plain", charset |-> "latin-1"]}
UpstreamResponses ==
    [status : UpstreamStatuses, ctype : UpstreamCTypes, chunks : ChunkSeqs]

\* resp.content_type: the media type of the Content-Type header, without its
\* parameters; application/octet-stream when there is no such header
content_type(up) ==
    IF up.ctype.mime = None THEN "application/octet-stream" ELSE up.ctype.mime

\* resp.get_encoding(): the declared charset, else UTF-8 (for JSON by rule,
\* for the rest by the client's fallback)
get_encoding(up) ==
    IF up.ctype.charset # None THEN up.ctype.charset
    ELSE IF up.ctype.mime = "application/json" THEN "utf-8"
    ELSE "utf-8"

\* await resp.read()
resp_read(up) == Concat(up.chunks)

\* await resp.text(): the body decoded, errors="strict"
resp_text(up) ==
    IF get_encoding(up) = "latin-1" THEN latin1_decode(resp_read(up))
    ELSE utf8_decode(resp_read(up))

\* ------------------------------------------------------------- requests
NoRequest == [method |-> None, path |-> None, headers |-> <<>>, body |-> <<>>]

Line(name, v) == IF v = None THEN <<>> ELSE << <<name, v>> >>

HeaderLines(o, m, h) ==
    << <<"Host", "proxy.local">> >> \o Line("Origin", o)
        \o Line("Access-Control-Request-Method", m)
        \o Line("Access-Control-Request-Headers", h)
        \o << <<"Authorization", "Bearer k">> >>

OriginValues == {None, "", "https://example.com"}
RequestMethodValues == {None, "", "POST"}
RequestHeadersValues == {None, "", "content-type"}

StreamBody(v) == <<"{", "\"stream\"", ":">> \o v \o <<"}">>

ChatBodies ==
    {<<>>, <<"{", "}">>, StreamBody(<<"true">>), StreamBody(<<"false">>),
     StreamBody(<<"1">>)}

Requests ==
    {[method |-> "GET", path |-> p, headers |-> HeaderLines(o, None, None),
      body |-> <<>>] : p \in GetRoutes, o \in OriginValues}
    \cup
    {[method |-> "POST", path |-> chat_route,
      headers |-> HeaderLines(o, None, None), body |-> b] :
        o \in OriginValues, b \in ChatBodies}
    \cup
    {[method |-> "OPTIONS", path |-> p, headers |-> HeaderLines(o, m, h),
      body |-> <<>>] :
        p \in Routes, o \in OriginValues, m \in RequestMethodValues,
        h \in RequestHeadersValues}

\* ------------------------------------------------------------- state
VARIABLES
    session,            \* app["session"]: "none", "open"
    pc,                 \* where each request's coroutine stands
    request,            \* the inbound request
    headers,            \* the handler's local `headers`
    stream,             \* do_chat_completion's local `stream`
    upstream_requests,  \* the requests sent upstream for this request
    resp,               \* the upstream response `resp`
    recvd,              \* chunks iter_chunks() has yielded so far
    chunk,              \* the loop variable `chunk`
    response,           \* the response object the caller is answered with
    head,               \* the status line and headers sent by prepare()
    written,            \* body bytes written to the caller by write()
    eof,                \* times end-of-body was signalled (write_eof)
    server,             \* web.run_app: "created", "serving", "stopping", "stopped"
    upstream_open,      \* the upstream response is acquired and not yet released
    caller,             \* the caller's connection: "connected", "gone"
    clock,              \* seconds since the upstream call of the request began
    fault               \* how the upstream transport failed: "none", "error", "timeout"

vars == <<session, pc, request, headers, stream, upstream_requests, resp,
          recvd, chunk, response, head, written, eof, server, upstream_open,
          caller, clock, fault>>

InitWith(R) ==
    /\ session = "none"
    /\ pc = [r \in R |-> "idle"]
    /\ request = [r \in R |-> NoRequest]
    /\ headers = [r \in R |-> EmptyDict]
    /\ stream = [r \in R |-> <<"unset">>]
    /\ upstream_requests = [r \in R |-> <<>>]
    /\ resp = [r \in R |-> NoUpstream]
    /\ recvd = [r \in R |-> 0]
    /\ chunk = [r \in R |-> <<>>]
    /\ response = [r \in R |-> NoResponse]
    /\ head = [r \in R |-> NoResponse]
    /\ written = [r \in R |-> <<>>]
    /\ eof = [r \in R |-> 0]
    /\ server = "created"
    /\ upstream_open = [r \in R |-> FALSE]
    /\ caller = [r \in R |-> "connected"]
    /\ clock = [r \in R |-> 0]
    /\ fault = [r \in R |-> "none"]

\* one request slot
Slots == {1}

Init == InitWith(Slots)

\* response.prepared
prepared(r) == head[r].kind # "none"

\* a server that starts to serve with the on_startup hook not registered
serve_without_session ==
    /\ server = "created"
    /\ server' = "serving"
    /\ UNCHANGED <<session, pc, request, headers, stream, upstream_requests,
                   resp, recvd, chunk, response, head, written, eof,
                   upstream_open, caller, clock, fault>>

\* on_startup: app["session"] = ClientSession(...)
on_startup ==
    /\ server = "created"
    /\ session = "none"
    /\ session' = "open"
    /\ server' = "serving"
    /\ UNCHANGED <<pc, request, headers, stream, upstream_requests, resp,
                   recvd, chunk, response, head, written, eof,
                   upstream_open, caller, clock, fault>>

\* the server accepts a request (one of S) and routes it
Arrive(r, S) ==
    /\ server = "serving"
    /\ pc[r] = "idle"
    /\ \E q \in S : request' = [request EXCEPT ![r] = q]
    /\ pc' = [pc EXCEPT ![r] = "arrived"]
    /\ UNCHANGED <<session, headers, stream, upstream_requests, resp, recvd,
                   chunk, response, head, written, eof,
                   server, upstream_open, caller, clock, fault>>

Routed(r, method, paths) ==
    /\ pc[r] = "arrived"
    /\ request[r].method = method
    /\ request[r].path \in paths

\* a return through a buffer that all requests share and nobody empties: the
\* body follows the body of a response that was returned before
ReturnAppended(r, rsp) ==
    LET prior == {q \in DOMAIN pc : q # r /\ pc[q] = "done"}
        before == IF prior = {} THEN <<>>
                  ELSE response[CHOOSE q \in prior : TRUE].body
        out == cors_middleware(request[r], rsp, prepared(r))
    IN  /\ response' = [response EXCEPT ![r] = [out EXCEPT !.body = before \o @]]
        /\ pc' = [pc EXCEPT ![r] = "done"]

\* the handler returns rsp to cors_middleware, which returns it to aiohttp
Return(r, rsp) ==
    /\ response' = [response EXCEPT ![r] = cors_middleware(request[r], rsp, prepared(r))]
    /\ pc' = [pc EXCEPT ![r] = "done"]

\* an exception leaves the handler and, uncaught, cors_middleware
Raise(r, exc) ==
    /\ response' = [response EXCEPT ![r] = exc]
    /\ pc' = [pc EXCEPT ![r] = "done"]

\* "504 Gateway Timeout"
GatewayTimeoutText ==
    <<53, 48, 52, 32, 71, 97, 116, 101, 119, 97, 121, 32, 84, 105, 109, 101,
      111, 117, 116>>

\* what aiohttp answers when an exception that is no HTTPException leaves the
\* handler: 504 for a timeout, 500 for the rest
ErrorResponse(kind) ==
    IF kind = "timeout"
    THEN [ServerError EXCEPT !.status = 504, !.body = GatewayTimeoutText]
    ELSE ServerError

\* an exception that ends the handler as if it had returned normally
PropagateAsSuccess(r, kind) ==
    IF prepared(r)
    THEN pc' = [pc EXCEPT ![r] = "done"] /\ UNCHANGED response
    ELSE Return(r, web_Response(200, "application/octet-stream", None, EmptyDict, <<>>))

\* an exception leaves the handler, which catches nothing.  Before the head
\* is sent aiohttp answers with an error response; after it, no second
\* response can be sent and the connection is closed, the body unfinished.
Propagate(r, kind) ==
    IF prepared(r)
    THEN pc' = [pc EXCEPT ![r] = "aborted"] /\ UNCHANGED response
    ELSE Raise(r, ErrorResponse(kind))

\* ------------------------------------------------------------- handlers
\* root: web.Response(text="OpenAI-compatible NVIDIA proxy (aiohttp) running.")
root(r) ==
    /\ Routed(r, "GET", {"/"})
    /\ Return(r, web_Response(200, "text/plain", "utf-8", EmptyDict, RootText))
    /\ UNCHANGED <<session, request, headers, stream, upstream_requests, resp,
                   recvd, chunk, head, written, eof,
                   server, upstream_open, caller, clock, fault>>

\* health: web.Response(text="OK")
health(r) ==
    /\ Routed(r, "GET", {"/health"})
    /\ Return(r, web_Response(200, "text/plain", "utf-8", EmptyDict, HealthText))
    /\ UNCHANGED <<session, request, headers, stream, upstream_requests, resp,
                   recvd, chunk, head, written, eof,
                   server, upstream_open, caller, clock, fault>>

\* list_routes: web.json_response({...})
list_routes(r) ==
    /\ Routed(r, "GET", {"/v1"})
    /\ Return(r, web_Response(200, "application/json", "utf-8", EmptyDict, RoutesJson))
    /\ UNCHANGED <<session, request, headers, stream, upstream_requests, resp,
                   recvd, chunk, head, written, eof,
                   server, upstream_open, caller, clock, fault>>

\* `and` in the place of `or`
NotPreflightBoth(origin, req_method) == ~Truthy(origin) /\ ~Truthy(req_method)

\* `if not origin or not req_method`: the request is no CORS preflight
NotPreflight(origin, req_method) == ~Truthy(origin) \/ ~Truthy(req_method)

\* `if req_headers: headers["Access-Control-Allow-Headers"] = req_headers`
EchoRequestHeaders(hdrs, req_headers) ==
    IF Truthy(req_headers)
    THEN ("Access-Control-Allow-Headers" :> req_headers) @@ hdrs
    ELSE hdrs

\* the response options_handler returns for a CORS preflight
PreflightResponse(methods, req_headers) ==
    web_Response(204, "application/octet-stream", None,
                 EchoRequestHeaders(
                     [k \in {"Access-Control-Allow-Origin",
                             "Access-Control-Allow-Methods", "Vary"} |->
                         CASE k = "Access-Control-Allow-Origin" -> "*"
                           [] k = "Access-Control-Allow-Methods" -> JoinMethods(methods)
                           [] k = "Vary" -> "Origin"],
                     req_headers),
                 <<>>)

\* options_handler(request, methods=...)
options_handler(r) ==
    /\ Routed(r, "OPTIONS", Routes)
    /\ LET methods == Append(partial_options_methods(request[r].path), "OPTIONS")
           origin == headers_get(request[r].headers, "Origin")
           req_method == headers_get(request[r].headers, "Access-Control-Request-Method")
           req_headers == headers_get(request[r].headers, "Access-Control-Request-Headers")
       IN  IF NotPreflight(origin, req_method)
           THEN Raise(r, HTTPMethodNotAllowed(methods))
           ELSE Return(r, PreflightResponse(methods, req_headers))
    /\ UNCHANGED <<session, request, headers, stream, upstream_requests, resp,
                   recvd, chunk, head, written, eof,
                   server, upstream_open, caller, clock, fault>>

\* session.get / session.post: the request goes upstream
\* a call that is made again after the first attempt
SendWithRetry(r, method, url, hdrs, body) ==
    upstream_requests' =
        [upstream_requests EXCEPT ![r] =
            @ \o << [method |-> method, url |-> url, headers |-> hdrs,
                      body |-> body],
                    [method |-> method, url |-> url, headers |-> hdrs,
                      body |-> body] >>]

Send(r, method, url, hdrs, body) ==
    upstream_requests' =
        [upstream_requests EXCEPT ![r] =
            Append(@, [method |-> method, url |-> url, headers |-> hdrs,
                       body |-> body])]

\* an upstream response kept in one place for all requests
ReceiveHeadShared(r) ==
    /\ \E u \in UpstreamResponses : resp' = [q \in DOMAIN resp |-> u]
    /\ upstream_open' = [upstream_open EXCEPT ![r] = TRUE]

\* the upstream answers: status line and headers arrive, the body will follow;
\* `async with ... as resp` holds the response from here on
ReceiveHead(r) ==
    /\ \E u \in UpstreamResponses : resp' = [resp EXCEPT ![r] = u]
    /\ upstream_open' = [upstream_open EXCEPT ![r] = TRUE]

\* a release that is skipped when the handler ends on a failed write
ReleaseUnlessGone(r) ==
    upstream_open' = [upstream_open EXCEPT ![r] = (caller[r] = "gone")]

\* the `async with` block is left (by return or by an exception): its exit
\* releases the upstream response
Release(r) == upstream_open' = [upstream_open EXCEPT ![r] = FALSE]

\* a passthrough that leaves the status at web.Response's default
PassthroughOk(up) ==
    web_Response(200, content_type(up), None, EmptyDict, resp_read(up))

\* web.Response(body=data, status=resp.status, content_type=resp.content_type)
Passthrough(up) ==
    web_Response(up.status, content_type(up), None, EmptyDict, resp_read(up))

\* list_models up to `async with session.get(url, headers=headers)`
list_models_get(r) ==
    /\ Routed(r, "GET", {"/v1/models"})
    /\ session = "open"
    /\ headers' = [headers EXCEPT ![r] = filter_headers(request[r].headers)]
    /\ Send(r, "GET", "/models", headers'[r], <<>>)
    /\ pc' = [pc EXCEPT ![r] = "models_await"]
    /\ UNCHANGED <<session, request, stream, resp, recvd, chunk, response,
                   head, written, eof,
                   server, upstream_open, caller, clock, fault>>

\* list_models: the upstream response head arrives
list_models_head(r) ==
    /\ pc[r] = "models_await"
    /\ ReceiveHead(r)
    /\ pc' = [pc EXCEPT ![r] = "models_read"]
    /\ UNCHANGED <<session, request, headers, stream, upstream_requests,
                   recvd, chunk, response, head, written, eof,
                   server, caller, clock, fault>>

\* list_models: data = await resp.read(); return web.Response(...)
list_models_read(r) ==
    /\ pc[r] = "models_read"
    /\ Return(r, Passthrough(resp[r]))
    /\ Release(r)
    /\ UNCHANGED <<session, request, headers, stream, upstream_requests, resp,
                   recvd, chunk, head, written, eof,
                   server, caller, clock, fault>>

\* do_chat_completion up to `body = await request.read()`
chat_start(r) ==
    /\ Routed(r, "POST", {chat_route})
    /\ headers' = [headers EXCEPT ![r] = filter_headers(request[r].headers)]
    /\ pc' = [pc EXCEPT ![r] = "chat_read"]
    /\ UNCHANGED <<session, request, stream, upstream_requests, resp, recvd,
                   chunk, response, head, written, eof,
                   server, upstream_open, caller, clock, fault>>

\* a body left empty by a classifier that consumed the request stream
ConsumedBody(body) == <<>>

\* `data=body`: the bytes object that request.read() returned, which
\* json.loads only reads
ForwardedBody(body) == body

\* do_chat_completion: the body is read, `stream` computed, the branch
\* `if stream:` taken and the request posted upstream
chat_post(r) ==
    /\ pc[r] = "chat_read"
    /\ session = "open"
    /\ stream' = [stream EXCEPT ![r] = classify(request[r].body)]
    /\ Send(r, "POST", "/chat/completions", headers[r],
            ForwardedBody(request[r].body))
    /\ pc' = [pc EXCEPT ![r] = IF PyTruthy(stream'[r]) THEN "stream_await"
                                ELSE "buffered_await"]
    /\ UNCHANGED <<session, request, headers, resp, recvd, chunk, response,
                   head, written, eof,
                   server, upstream_open, caller, clock, fault>>

\* a test that lets the status 400 through to the stream
IsErrorStatusAbove(status) == status > 400

\* `if resp.status >= 400`
IsErrorStatus(status) == status >= 400

\* a StreamResponse whose CORS headers are left to cors_middleware
StreamHeadNoCors(req, up) == web_StreamResponse(up.status)

\* the StreamResponse of the streaming branch, its CORS headers set
StreamHead(req, up) ==
    IF Truthy(headers_get(req.headers, "Origin"))
    THEN AddCors(web_StreamResponse(up.status))
    ELSE web_StreamResponse(up.status)

\* streaming branch: the upstream head arrives; on an error status the body
\* will be read as text, else the StreamResponse is built
chat_stream_head(r) ==
    /\ pc[r] = "stream_await"
    /\ ReceiveHead(r)
    /\ IF IsErrorStatus(resp'[r].status)
       THEN /\ pc' = [pc EXCEPT ![r] = "stream_error"]
            /\ UNCHANGED response
       ELSE /\ pc' = [pc EXCEPT ![r] = "stream_prepare"]
            /\ response' = [response EXCEPT ![r] = StreamHead(request[r], resp'[r])]
    /\ UNCHANGED <<session, request, headers, stream, upstream_requests,
                   recvd, chunk, head, written, eof,
                   server, caller, clock, fault>>

\* web.Response(text=text, status=resp.status, content_type=resp.content_type)
ErrorRelay(up, text) == web_Response_text(up.status, content_type(up), text)

\* streaming branch, error status: text = await resp.text(); return
chat_stream_error(r) ==
    /\ pc[r] = "stream_error"
    /\ LET t == resp_text(resp[r])
       IN  IF t.ok THEN Return(r, ErrorRelay(resp[r], t.text))
           ELSE Raise(r, ServerError)
    /\ Release(r)
    /\ UNCHANGED <<session, request, headers, stream, upstream_requests, resp,
                   recvd, chunk, head, written, eof,
                   server, caller, clock, fault>>

\* await response.prepare(request): status line and headers go to the caller
chat_prepare(r) ==
    /\ pc[r] = "stream_prepare"
    /\ head' = [head EXCEPT ![r] = response[r]]
    /\ pc' = [pc EXCEPT ![r] = "relay"]
    /\ UNCHANGED <<session, request, headers, stream, upstream_requests, resp,
                   recvd, chunk, response, written, eof,
                   server, upstream_open, caller, clock, fault>>

\* `async for chunk, _ in resp.content.iter_chunks()`: the next chunk
chat_next_chunk(r) ==
    /\ pc[r] = "relay"
    /\ recvd[r] < Len(resp[r].chunks)
    /\ recvd' = [recvd EXCEPT ![r] = @ + 1]
    /\ chunk' = [chunk EXCEPT ![r] = resp[r].chunks[recvd[r] + 1]]
    /\ pc' = [pc EXCEPT ![r] = IF chunk'[r] # <<>> THEN "write" ELSE "relay"]
    /\ UNCHANGED <<session, request, headers, stream, upstream_requests, resp,
                   response, head, written, eof,
                   server, upstream_open, caller, clock, fault>>

\* a write that puts the chunk on the wire twice
WriteChunkTwice(out, c) == out \o c \o c

\* what response.write(chunk) puts on the wire after what was written
WriteChunk(out, c) == out \o c

\* await response.write(chunk); on a closed connection write() raises
chat_write(r) ==
    /\ pc[r] = "write"
    /\ IF caller[r] = "gone"
       THEN /\ Propagate(r, "error")
            /\ Release(r)
            /\ UNCHANGED written
       ELSE /\ written' = [written EXCEPT ![r] = WriteChunk(@, chunk[r])]
            /\ pc' = [pc EXCEPT ![r] = "relay"]
            /\ UNCHANGED <<response, upstream_open>>
    /\ UNCHANGED <<session, request, headers, stream, upstream_requests, resp,
                   recvd, chunk, head, eof, server, caller, clock, fault>>

\* an end of the loop that does not wait for the upstream body to end
ExhaustedEarly(r) == TRUE

\* the loop ends with the upstream body
Exhausted(r) == recvd[r] = Len(resp[r].chunks)

\* await response.write_eof(); return response; on a closed connection
\* write_eof() raises
chat_write_eof(r) ==
    /\ pc[r] = "relay"
    /\ Exhausted(r)
    /\ IF caller[r] = "gone"
       THEN /\ Propagate(r, "error")
            /\ UNCHANGED eof
       ELSE /\ eof' = [eof EXCEPT ![r] = @ + 1]
            /\ Return(r, response[r])
    /\ Release(r)
    /\ UNCHANGED <<session, request, headers, stream, upstream_requests, resp,
                   recvd, chunk, head, written, server, caller, clock, fault>>

\* buffered branch: the upstream head arrives
chat_buffered_head(r) ==
    /\ pc[r] = "buffered_await"
    /\ ReceiveHead(r)
    /\ pc' = [pc EXCEPT ![r] = "buffered_read"]
    /\ UNCHANGED <<session, request, headers, stream, upstream_requests,
                   recvd, chunk, response, head, written, eof,
                   server, caller, clock, fault>>

\* buffered branch: data = await resp.read(); return web.Response(...)
chat_buffered_read(r) ==
    /\ pc[r] = "buffered_read"
    /\ Return(r, Passthrough(resp[r]))
    /\ Release(r)
    /\ UNCHANGED <<session, request, headers, stream, upstream_requests, resp,
                   recvd, chunk, head, written, eof,
                   server, caller, clock, fault>>

Next ==
    \/ on_startup
    \/ \E r \in DOMAIN pc : Arrive(r, Requests)
    \/ \E r \in DOMAIN pc : root(r)
    \/ \E r \in DOMAIN pc : health(r)
    \/ \E r \in DOMAIN pc : list_routes(r)
    \/ \E r \in DOMAIN pc : options_handler(r)
    \/ \E r \in DOMAIN pc : list_models_get(r)
    \/ \E r \in DOMAIN pc : list_models_head(r)
    \/ \E r \in DOMAIN pc : list_models_read(r)
    \/ \E r \in DOMAIN pc : chat_start(r)
    \/ \E r \in DOMAIN pc : chat_post(r)
    \/ \E r \in DOMAIN pc : chat_stream_head(r)
    \/ \E r \in DOMAIN pc : chat_stream_error(r)
    \/ \E r \in DOMAIN pc : chat_prepare(r)
    \/ \E r \in DOMAIN pc : chat_next_chunk(r)
    \/ \E r \in DOMAIN pc : chat_write(r)
    \/ \E r \in DOMAIN pc : chat_write_eof(r)
    \/ \E r \in DOMAIN pc : chat_buffered_head(r)
    \/ \E r \in DOMAIN pc : chat_buffered_read(r)

Spec == Init /\ [][Next]_vars

\* --------------------------------------------------------------- faults
\* the awaits of the handlers that wait for the upstream: session.get / post,
\* resp.read(), resp.text() and the next chunk of iter_chunks()
AwaitsUpstream(r) ==
    pc[r] \in {"models_await", "models_read", "stream_await", "stream_error",
               "buffered_await", "buffered_read", "relay"}

\* the handler has ended: it returned or raised ("done"), or it raised after
\* the head was sent ("aborted"), or aiohttp cancelled it ("cancelled")
Finished(r) == pc[r] \in {"done", "aborted", "cancelled"}

\* the upstream call fails in transport (connection refused or reset, body
\* cut short): the await raises, no handler catches it, and the async with
\* block, when entered, releases the upstream response on the way out
upstream_fail(r) ==
    /\ AwaitsUpstream(r)
    /\ fault[r] = "none"
    /\ fault' = [fault EXCEPT ![r] = "error"]
    /\ Propagate(r, "error")
    /\ Release(r)
    /\ UNCHANGED <<session, request, headers, stream, upstream_requests, resp,
                   recvd, chunk, head, written, eof, server, caller, clock>>

\* the caller closes its connection while the stream is being relayed; the
\* handler learns of it at its next write
caller_disconnect(r) ==
    /\ pc[r] \in {"relay", "write"}
    /\ caller[r] = "connected"
    /\ caller' = [caller EXCEPT ![r] = "gone"]
    /\ UNCHANGED <<session, pc, request, headers, stream, upstream_requests,
                   resp, recvd, chunk, response, head, written, eof, server,
                   upstream_open, clock, fault>>

\* ------------------------------------------------------------ timeouts
\* ClientSession(...) is given no timeout=, so every call of the session runs
\* under aiohttp's default ClientTimeout(total=300): seconds allowed from the
\* start of the call to the end of the response body
TotalTimeout == 300

\* the call of slot r has been made and the handler is still in it
InUpstreamCall(r) == upstream_requests[r] # <<>> /\ ~Finished(r)

\* time passes while the call is under way; it cannot pass the deadline
\* without the timer of the call firing
tick(r) ==
    /\ InUpstreamCall(r)
    /\ clock[r] < TotalTimeout
    /\ clock' = [clock EXCEPT ![r] = @ + TickSeconds]
    /\ UNCHANGED <<session, pc, request, headers, stream, upstream_requests,
                   resp, recvd, chunk, response, head, written, eof, server,
                   upstream_open, caller, fault>>

\* the timer of the call fires: the await on the upstream raises
\* asyncio.TimeoutError, whatever part of the response has arrived
upstream_timeout(r) ==
    /\ AwaitsUpstream(r)
    /\ clock[r] >= TotalTimeout
    /\ fault[r] = "none"
    /\ fault' = [fault EXCEPT ![r] = "timeout"]
    /\ Propagate(r, "timeout")
    /\ Release(r)
    /\ UNCHANGED <<session, request, headers, stream, upstream_requests, resp,
                   recvd, chunk, head, written, eof, server, caller, clock>>

\* ------------------------------------------------------------ shutdown
\* the handler of slot r is running
InFlight(r) == pc[r] # "idle" /\ ~Finished(r)

\* web.run_app receives SIGINT / SIGTERM: the sites stop accepting
shutdown ==
    /\ server = "serving"
    /\ server' = "stopping"
    /\ UNCHANGED <<session, pc, request, headers, stream, upstream_requests,
                   resp, recvd, chunk, response, head, written, eof,
                   upstream_open, caller, clock, fault>>

\* web.run_app cancels a handler that outlives the shutdown timeout:
\* CancelledError is raised at the handler's await and leaves the async with
\* block, which releases the upstream response
cancel(r) ==
    /\ server = "stopping"
    /\ InFlight(r)
    /\ pc' = [pc EXCEPT ![r] = "cancelled"]
    /\ Release(r)
    /\ UNCHANGED <<session, request, headers, stream, upstream_requests, resp,
                   recvd, chunk, response, head, written, eof, server, caller,
                   clock, fault>>

\* on_cleanup: await app["session"].close(); web.run_app runs the hook after
\* the handlers have finished or have been cancelled
on_cleanup ==
    /\ server = "stopping"
    /\ \A r \in DOMAIN pc : ~InFlight(r)
    /\ session = "open"
    /\ session' = "closed"
    /\ server' = "stopped"
    /\ UNCHANGED <<pc, request, headers, stream, upstream_requests, resp,
                   recvd, chunk, response, head, written, eof,
                   upstream_open, caller, clock, fault>>

\* --------------------------------------------- further specifications
\* The streaming branch alone, with the fairness the event loop gives the
\* handler's own steps: a coroutine that can write, or can end the stream, is
\* eventually run.
StreamRequests ==
    {q \in Requests : q.method = "POST" /\ PyTruthy(classify(q.body))}

StreamNext ==
    \/ on_startup
    \/ \E r \in DOMAIN pc : Arrive(r, StreamRequests)
    \/ \E r \in DOMAIN pc : chat_start(r)
    \/ \E r \in DOMAIN pc : chat_post(r)
    \/ \E r \in DOMAIN pc : chat_stream_head(r)
    \/ \E r \in DOMAIN pc : chat_stream_error(r)
    \/ \E r \in DOMAIN pc : chat_prepare(r)
    \/ \E r \in DOMAIN pc : chat_next_chunk(r)
    \/ \E r \in DOMAIN pc : chat_write(r)
    \/ \E r \in DOMAIN pc : chat_write_eof(r)

StreamSpec ==
    /\ Init
    /\ [][StreamNext]_vars
    /\ \A r \in Slots : WF_vars(chat_write(r)) /\ WF_vars(chat_write_eof(r))

\* The streaming classification over many request bodies.
Lexemes ==
    {"{", "}", "[", "]", ":", ",", "true", "false", "null"}
        \cup NumberLexemes \cup StringLexemes

MemberBody(k, v) == <<"{", k, ":">> \o v \o <<"}">>

ClassifyBodies ==
    SeqsUpTo(Lexemes, MaxGarbage)
        \cup {MemberBody(k, v) : k \in {"\"stream\"", "\"yes\""},
                                 v \in SeqsUpTo(Lexemes, MaxValLen)}

ClassifyRequests ==
    {[method |-> "POST", path |-> chat_route,
      headers |-> HeaderLines(None, None, None), body |-> b] :
        b \in ClassifyBodies}

ClassifyNext ==
    \/ on_startup
    \/ \E r \in DOMAIN pc : Arrive(r, ClassifyRequests)
    \/ \E r \in DOMAIN pc : chat_start(r)
    \/ \E r \in DOMAIN pc : chat_post(r)

ClassifySpec == Init /\ [][ClassifyNext]_vars

\* The header filter over many inbound header lists.
HeaderNames ==
    {"Host", "HOST", "Content-Length", "content-length", "Authorization", "Accept"}
HeaderValues == {"a", "b"}
HeaderLists == SeqsUpTo(HeaderNames \X HeaderValues, MaxHdrs)

HeaderRequests ==
    {[method |-> "GET", path |-> "/v1/models", headers |-> h, body |-> <<>>] :
        h \in HeaderLists}
    \cup
    {[method |-> "POST", path |-> chat_route, headers |-> h, body |-> <<"{", "}">>] :
        h \in HeaderLists}

HeaderNext ==
    \/ on_startup
    \/ \E r \in DOMAIN pc : Arrive(r, HeaderRequests)
    \/ \E r \in DOMAIN pc : list_models_get(r)
    \/ \E r \in DOMAIN pc : chat_start(r)
    \/ \E r \in DOMAIN pc : chat_post(r)

HeaderSpec == Init /\ [][HeaderNext]_vars

\* Every handler, with upstream transport failures and callers that leave
\* mid-stream.
FaultRequests ==
    {q \in Requests :
        /\ headers_get(q.headers, "Origin") # ""
        /\ headers_get(q.headers, "Access-Control-Request-Headers") = None
        /\ q.body \in {<<>>, StreamBody(<<"true">>), StreamBody(<<"false">>)}}

FaultNext ==
    \/ on_startup
    \/ \E r \in DOMAIN pc : Arrive(r, FaultRequests)
    \/ \E r \in DOMAIN pc : root(r)
    \/ \E r \in DOMAIN pc : health(r)
    \/ \E r \in DOMAIN pc : list_routes(r)
    \/ \E r \in DOMAIN pc : options_handler(r)
    \/ \E r \in DOMAIN pc : list_models_get(r)
    \/ \E r \in DOMAIN pc : list_models_head(r)
    \/ \E r \in DOMAIN pc : list_models_read(r)
    \/ \E r \in DOMAIN pc : chat_start(r)
    \/ \E r \in DOMAIN pc : chat_post(r)
    \/ \E r \in DOMAIN pc : chat_stream_head(r)
    \/ \E r \in DOMAIN pc : chat_stream_error(r)
    \/ \E r \in DOMAIN pc : chat_prepare(r)
    \/ \E r \in DOMAIN pc : chat_next_chunk(r)
    \/ \E r \in DOMAIN pc : chat_write(r)
    \/ \E r \in DOMAIN pc : chat_write_eof(r)
    \/ \E r \in DOMAIN pc : chat_buffered_head(r)
    \/ \E r \in DOMAIN pc : chat_buffered_read(r)
    \/ \E r \in DOMAIN pc : upstream_fail(r)
    \/ \E r \in DOMAIN pc : caller_disconnect(r)

FaultSpec ==
    /\ Init
    /\ [][FaultNext]_vars
    /\ \A r \in Slots : WF_vars(chat_write(r)) /\ WF_vars(chat_write_eof(r))
                         /\ WF_vars(chat_next_chunk(r))

\* Every handler from the start of web.run_app to its shutdown.
LifecycleNext ==
    \/ on_startup
    \/ \E r \in DOMAIN pc : Arrive(r, Requests)
    \/ \E r \in DOMAIN pc : root(r)
    \/ \E r \in DOMAIN pc : health(r)
    \/ \E r \in DOMAIN pc : list_routes(r)
    \/ \E r \in DOMAIN pc : options_handler(r)
    \/ \E r \in DOMAIN pc : list_models_get(r)
    \/ \E r \in DOMAIN pc : list_models_head(r)
    \/ \E r \in DOMAIN pc : list_models_read(r)
    \/ \E r \in DOMAIN pc : chat_start(r)
    \/ \E r \in DOMAIN pc : chat_post(r)
    \/ \E r \in DOMAIN pc : chat_stream_head(r)
    \/ \E r \in DOMAIN pc : chat_stream_error(r)
    \/ \E r \in DOMAIN pc : chat_prepare(r)
    \/ \E r \in DOMAIN pc : chat_next_chunk(r)
    \/ \E r \in DOMAIN pc : chat_write(r)
    \/ \E r \in DOMAIN pc : chat_write_eof(r)
    \/ \E r \in DOMAIN pc : chat_buffered_head(r)
    \/ \E r \in DOMAIN pc : chat_buffered_read(r)
    \/ shutdown
    \/ \E r \in DOMAIN pc : cancel(r)
    \/ on_cleanup

LifecycleSpec == Init /\ [][LifecycleNext]_vars

\* Two requests in flight at once, their steps interleaved in every order.
ConcSlots == {1, 2}

ConcRequests ==
    {[method |-> "GET", path |-> "/v1/models",
      headers |-> HeaderLines(o, None, None), body |-> <<>>] :
        o \in {"https://example.com"}}
    \cup
    {[method |-> "POST", path |-> chat_route,
      headers |-> HeaderLines("https://example.com", None, None),
      body |-> StreamBody(v)] : v \in {<<"true">>, <<"false">>}}

ConcResponses ==
    [status : {200, 429},
     ctype : {[mime |-> "application/json", charset |-> None]},
     chunks : SeqsUpTo({<<65>>, <<233>>}, MaxChunks)]

ConcNext ==
    \/ on_startup
    \/ \E r \in DOMAIN pc : Arrive(r, ConcRequests)
    \/ \E r \in DOMAIN pc : list_models_get(r)
    \/ \E r \in DOMAIN pc : list_models_head(r) /\ resp'[r] \in ConcResponses
    \/ \E r \in DOMAIN pc : list_models_read(r)
    \/ \E r \in DOMAIN pc : chat_start(r)
    \/ \E r \in DOMAIN pc : chat_post(r)
    \/ \E r \in DOMAIN pc : chat_stream_head(r) /\ resp'[r] \in ConcResponses
    \/ \E r \in DOMAIN pc : chat_stream_error(r)
    \/ \E r \in DOMAIN pc : chat_prepare(r)
    \/ \E r \in DOMAIN pc : chat_next_chunk(r)
    \/ \E r \in DOMAIN pc : chat_write(r)
    \/ \E r \in DOMAIN pc : chat_write_eof(r)
    \/ \E r \in DOMAIN pc : chat_buffered_head(r) /\ resp'[r] \in ConcResponses
    \/ \E r \in DOMAIN pc : chat_buffered_read(r)

ConcSpec == InitWith(ConcSlots) /\ [][ConcNext]_vars

\* The proxied handlers against an upstream that may be slow: time passes
\* during an upstream call, and the event loop runs a timer that is due.
TimeoutRequests ==
    {[method |-> "GET", path |-> "/v1/models",
      headers |-> HeaderLines(None, None, None), body |-> <<>>]}
    \cup
    {[method |-> "POST", path |-> chat_route,
      headers |-> HeaderLines(None, None, None),
      body |-> StreamBody(v)] : v \in {<<"true">>, <<"false">>}}

TimeoutNext ==
    \/ on_startup
    \/ \E r \in DOMAIN pc : Arrive(r, TimeoutRequests)
    \/ \E r \in DOMAIN pc : list_models_get(r)
    \/ \E r \in DOMAIN pc : list_models_head(r)
    \/ \E r \in DOMAIN pc : list_models_read(r)
    \/ \E r \in DOMAIN pc : chat_start(r)
    \/ \E r \in DOMAIN pc : chat_post(r)
    \/ \E r \in DOMAIN pc : chat_stream_head(r)
    \/ \E r \in DOMAIN pc : chat_stream_error(r)
    \/ \E r \in DOMAIN pc : chat_prepare(r)
    \/ \E r \in DOMAIN pc : chat_next_chunk(r)
    \/ \E r \in DOMAIN pc : chat_write(r)
    \/ \E r \in DOMAIN pc : chat_write_eof(r)
    \/ \E r \in DOMAIN pc : chat_buffered_head(r)
    \/ \E r \in DOMAIN pc : chat_buffered_read(r)
    \/ \E r \in DOMAIN pc : tick(r)
    \/ \E r \in DOMAIN pc : upstream_timeout(r)

TimeoutSpec ==
    /\ Init
    /\ [][TimeoutNext]_vars
    /\ \A r \in Slots :
          /\ WF_vars(tick(r)) /\ WF_vars(upstream_timeout(r))
          /\ WF_vars(chat_write(r)) /\ WF_vars(chat_write_eof(r))
          /\ WF_vars(chat_prepare(r))

\* ------------------------------------------------------------- properties
\* what the properties say about a request, read off its header lines
HasLine(r, name) ==
    \E i \in DOMAIN request[r].headers : request[r].headers[i][1] = name
HasValue(r, name) ==
    \E i \in DOMAIN request[r].headers :
        request[r].headers[i][1] = name /\ request[r].headers[i][2] # ""
ValueOf(r, name) ==
    request[r].headers[
        Min({i \in DOMAIN request[r].headers : request[r].headers[i][1] = name})][2]

HasCors(h) ==
    /\ "Access-Control-Allow-Origin" \in DOMAIN h
    /\ h["Access-Control-Allow-Origin"] = "*"
    /\ "Vary" \in DOMAIN h
    /\ h["Vary"] = "Origin"

Done(r) == pc[r] = "done"
IsChat(r) == request[r].method = "POST" /\ request[r].path = chat_route
ClassifiedStreaming(r) == stream[r] # <<"unset">> /\ PyTruthy(stream[r])
ClassifiedBuffered(r) == stream[r] # <<"unset">> /\ ~PyTruthy(stream[r])
UpstreamBody(r) == Concat(resp[r].chunks)
UpstreamMediaType(r) ==
    IF resp[r].ctype.mime = None THEN "application/octet-stream"
    ELSE resp[r].ctype.mime
NonEmptyChunks(cs) == SelectSeq(cs, LAMBDA c : c # <<>>)
Received(r) == SubSeq(resp[r].chunks, 1, recvd[r])

\* C1: a streaming request whose upstream status is >= 400 is answered with
\* one buffered response that has the upstream status, the upstream content
\* type and the complete upstream body; no stream is opened.
C1_ErrorRelayedWhole ==
    \A r \in DOMAIN pc :
        (Done(r) /\ IsChat(r) /\ ClassifiedStreaming(r) /\ resp[r].status >= 400)
            => /\ response[r].kind = "buffered"
               /\ response[r].status = resp[r].status
               /\ response[r].body = UpstreamBody(r)
               /\ response[r].mime = UpstreamMediaType(r)
               /\ response[r].mime # "text/event-stream"
               /\ ~prepared(r)
               /\ written[r] = <<>>

\* C2: on the streaming path the bytes written to the caller are always a
\* prefix of the non-empty chunks received so far, concatenated in arrival
\* order; between two chunks, and when the relay has completed, they are
\* equal to it.
C2_RelayPreservesBytes ==
    \A r \in DOMAIN pc :
        prepared(r) =>
            /\ IsPrefix(written[r], Concat(NonEmptyChunks(Received(r))))
            /\ pc[r] = "relay" => written[r] = Concat(NonEmptyChunks(Received(r)))
            /\ Done(r) => written[r] = Concat(NonEmptyChunks(resp[r].chunks))

C2_Witness ==
    \E r \in DOMAIN pc :
        /\ Done(r) /\ prepared(r)
        /\ Len(NonEmptyChunks(resp[r].chunks)) >= 2
        /\ resp[r].chunks[1] # resp[r].chunks[2]
        /\ written[r] = resp[r].chunks[1] \o resp[r].chunks[2]

\* C3: on the streaming path end-of-body is signalled at most once, only
\* when the upstream body is exhausted and every chunk of it is written, and
\* exactly once when the handler has returned; nothing is written after it;
\* and an exhausted upstream body leads to the end-of-body signal.
C3_EofState ==
    \A r \in DOMAIN pc :
        /\ eof[r] <= 1
        /\ eof[r] = 1 => /\ recvd[r] = Len(resp[r].chunks)
                         /\ written[r] = Concat(resp[r].chunks)
        /\ (Done(r) /\ prepared(r)) => eof[r] = 1

C3_FinalizedOnce ==
    /\ []C3_EofState
    /\ [][\A r \in DOMAIN pc :
            eof[r] >= 1 => (written'[r] = written[r] /\ eof'[r] = eof[r])]_vars
    /\ \A r \in Slots :
        (prepared(r) /\ recvd[r] = Len(resp[r].chunks)) ~> (eof[r] = 1)

C3_Witness ==
    \E r \in DOMAIN pc :
        /\ Done(r) /\ eof[r] = 1
        /\ Len(resp[r].chunks) = 2
        /\ written[r] # <<>>

\* C4 as claimed: when the first chunk is written the head is already sent,
\* with the upstream status, Content-Type text/event-stream and, when the
\* request had an Origin header, the two CORS headers.
C4_Head(r, withOrigin) ==
    /\ (written[r] # <<>> \/ pc[r] = "write" \/ eof[r] > 0) => prepared(r)
    /\ prepared(r) =>
        /\ head[r].status = resp[r].status
        /\ head[r].mime = "text/event-stream"
        /\ withOrigin => HasCors(head[r].headers)
        /\ Done(r) => response[r].headers = head[r].headers

C4_Original == \A r \in DOMAIN pc : C4_Head(r, HasLine(r, "Origin"))

\* C4, amended: the same with the two CORS headers when the request had a
\* non-empty Origin header; once sent, the head never changes, and the
\* response cors_middleware returns has the headers of the head.
C4_HeadSentFirst ==
    /\ [](\A r \in DOMAIN pc : C4_Head(r, HasValue(r, "Origin")))
    /\ [][\A r \in DOMAIN pc : prepared(r) => head'[r] = head[r]]_vars

C4_Witness ==
    \E r \in DOMAIN pc :
        /\ written[r] # <<>>
        /\ HasValue(r, "Origin")
        /\ HasCors(head[r].headers)
        /\ head[r].status = 200

\* C5: every response completed without streaming to a request that carries
\* a (non-empty) Origin header has Access-Control-Allow-Origin: * and
\* Vary: Origin, whatever the route and the outcome of the handler.
C5_CorsOnEveryResponse ==
    \A r \in DOMAIN pc :
        (Done(r) /\ ~prepared(r) /\ HasValue(r, "Origin"))
            => HasCors(response[r].headers)

\* the Access-Control-Allow-Methods value the claims expect of a route
ExpectedAllowMethods(path) ==
    IF path = "/v1/chat/completions" THEN "POST, OPTIONS" ELSE "GET, OPTIONS"

C6_Preflight(r, origin, req_method, req_headers) ==
    (Done(r) /\ request[r].method = "OPTIONS" /\ origin /\ req_method)
        => /\ response[r].status = 204
           /\ HasCors(response[r].headers)
           /\ "Access-Control-Allow-Methods" \in DOMAIN response[r].headers
           /\ response[r].headers["Access-Control-Allow-Methods"]
                = ExpectedAllowMethods(request[r].path)
           /\ "Access-Control-Allow-Headers" \in DOMAIN response[r].headers
                <=> req_headers
           /\ req_headers
                => response[r].headers["Access-Control-Allow-Headers"]
                     = ValueOf(r, "Access-Control-Request-Headers")

\* C6 as claimed: an OPTIONS request that carries Origin and
\* Access-Control-Request-Method is answered 204 with the CORS headers, the
\* route's methods, and Access-Control-Allow-Headers iff
\* Access-Control-Request-Headers was sent.
C6_Original ==
    \A r \in DOMAIN pc :
        C6_Preflight(r, HasLine(r, "Origin"),
                     HasLine(r, "Access-Control-Request-Method"),
                     HasLine(r, "Access-Control-Request-Headers"))

\* C6, amended: the same for headers that are sent with a non-empty value.
C6_PreflightAnswered ==
    \A r \in DOMAIN pc :
        C6_Preflight(r, HasValue(r, "Origin"),
                     HasValue(r, "Access-Control-Request-Method"),
                     HasValue(r, "Access-Control-Request-Headers"))

C6_Witness ==
    \E r \in DOMAIN pc :
        /\ Done(r) /\ request[r].method = "OPTIONS"
        /\ request[r].path = chat_route
        /\ HasValue(r, "Origin") /\ HasValue(r, "Access-Control-Request-Method")
        /\ HasValue(r, "Access-Control-Request-Headers")
        /\ response[r].status = 204

\* C7: an OPTIONS request in which Origin or Access-Control-Request-Method is
\* absent or empty is answered 405 with the route's allowed methods, never 204.
C7_NotPreflightRejected ==
    \A r \in DOMAIN pc :
        (Done(r) /\ request[r].method = "OPTIONS"
            /\ (~HasValue(r, "Origin") \/ ~HasValue(r, "Access-Control-Request-Method")))
            => /\ response[r].kind = "http_error"
               /\ response[r].status = 405
               /\ response[r].status # 204
               /\ response[r].allowed_methods =
                    (IF request[r].path = "/v1/chat/completions"
                     THEN <<"POST", "OPTIONS">> ELSE <<"GET", "OPTIONS">>)

C7_Witness ==
    \E r \in DOMAIN pc :
        /\ Done(r) /\ request[r].method = "OPTIONS"
        /\ HasValue(r, "Origin")
        /\ ~HasLine(r, "Access-Control-Request-Method")
        /\ response[r].status = 405

\* the body is a JSON object whose key stream has the boolean value true
IsObjectWithStreamTrue(body) ==
    LET j == json_loads(body)
    IN  /\ j.ok
        /\ j.val[1] = "dict"
        /\ LET idx == {i \in DOMAIN j.val[2] : j.val[2][i][1] = "\"stream\""}
           IN  /\ idx # {}
               /\ j.val[2][Max(idx)][2][1] = "bool"
               /\ j.val[2][Max(idx)][2][2] = "true"

\* C8: do_chat_completion takes the streaming branch iff the body is a JSON
\* object whose key stream has the boolean value true.
C8_StreamIffBooleanTrue ==
    \A r \in DOMAIN pc :
        pc[r] \in {"stream_await", "buffered_await"}
            => (pc[r] = "stream_await" <=> IsObjectWithStreamTrue(request[r].body))

\* C9: the headers sent upstream are exactly the lines of the inbound request
\* whose lowercased name is neither host nor content-length.
C9_FilterKeepsEveryOtherPair ==
    \A r \in DOMAIN pc :
        upstream_requests[r] # <<>>
            => Pairs(upstream_requests[r][1].headers)
                 = {request[r].headers[i] :
                      i \in {j \in DOMAIN request[r].headers :
                               Lower(request[r].headers[j][1])
                                   \notin {"host", "content-length"}}}

\* C10: on the buffered path (GET /v1/models, a chat completion classified
\* non-streaming) the response has the upstream status, the upstream media
\* type (application/octet-stream when upstream names none) and the upstream
\* body, byte for byte, for every upstream status.
OnBufferedPath(r) ==
    \/ request[r].method = "GET" /\ request[r].path = "/v1/models"
    \/ IsChat(r) /\ ClassifiedBuffered(r)

StatusSent(r) == IF prepared(r) THEN head[r].status ELSE response[r].status

\* C11, as stated: every transport failure of the upstream call reaches the
\* caller as a 5xx response, also after the stream was opened.
C11_Original ==
    \A r \in DOMAIN pc : fault[r] # "none" => StatusSent(r) >= 500

\* C11: a transport failure of the upstream call ends the handler after its
\* one upstream attempt and is never reported as success.  Before the head is
\* sent the caller gets a 5xx response (500, or 504 for a timeout); after the
\* stream was opened the head already sent stands, the stream is cut without
\* an end-of-body and no second response is produced.
C11_FailureSurfaced ==
    \A r \in DOMAIN pc :
        fault[r] # "none"
            => /\ Finished(r)
               /\ Len(upstream_requests[r]) = 1
               /\ eof[r] = 0
               /\ ~prepared(r)
                    => /\ pc[r] = "done"
                       /\ response[r].kind = "server_error"
                       /\ response[r].status
                            = (IF fault[r] = "timeout" THEN 504 ELSE 500)
               /\ prepared(r)
                    => /\ pc[r] = "aborted"
                       /\ response[r].kind = "stream"
                       /\ head[r].status = resp[r].status
                       /\ head[r].status < 400

C11_Witness ==
    \E r \in DOMAIN pc :
        /\ fault[r] = "error"
        /\ pc[r] = "aborted"
        /\ written[r] # <<>>
        /\ recvd[r] < Len(resp[r].chunks)

\* the request is one the proxy forwards upstream
IsProxied(r) ==
    \/ request[r].method = "GET" /\ request[r].path = "/v1/models"
    \/ IsChat(r)

\* C12: each inbound request causes at most one upstream request, whatever
\* the upstream status or failure: exactly one once a GET /v1/models or a
\* POST /v1/chat/completions has ended, none for an OPTIONS request and for
\* GET /, /health and /v1.
C12_OneUpstreamRequest ==
    \A r \in DOMAIN pc :
        /\ Len(upstream_requests[r]) <= 1
        /\ pc[r] # "idle"
            => /\ (Finished(r) /\ IsProxied(r))
                    => Len(upstream_requests[r]) = 1
               /\ ~IsProxied(r) => upstream_requests[r] = <<>>

C12_Witness ==
    \E r \in DOMAIN pc :
        /\ IsChat(r)
        /\ Finished(r)
        /\ fault[r] = "error" \/ resp[r].status = 429
        /\ Len(upstream_requests[r]) = 1

\* C13: the shared session exists before any handler runs and is closed once,
\* at shutdown, by on_cleanup; every upstream call is made, and every upstream
\* response is read, while the session is open; no handler is still running
\* once the session has been closed.
C13_SessionState ==
    /\ server = "stopped" <=> session = "closed"
    /\ \A r \in DOMAIN pc :
        /\ pc[r] # "idle" => session # "none"
        /\ (AwaitsUpstream(r) \/ upstream_open[r]) => session = "open"
        /\ session = "closed" => ~InFlight(r)

C13_SessionStep ==
    /\ session = "closed" => session' = "closed"
    /\ session' # session
        => \/ session = "none" /\ session' = "open" /\ server = "created"
           \/ session = "open" /\ session' = "closed" /\ server = "stopping"
    /\ \A r \in DOMAIN pc :
          upstream_requests'[r] # upstream_requests[r]
              => session = "open" /\ session' = "open"

C13_SessionLifecycle == []C13_SessionState /\ [][C13_SessionStep]_vars

C13_Witness ==
    /\ session = "closed"
    /\ \E r \in DOMAIN pc :
        /\ pc[r] \in {"done", "cancelled"}
        /\ Len(upstream_requests[r]) = 1
        /\ resp[r] # NoUpstream

\* C14: the upstream response acquired by a handler is released on every
\* exit path (return, relayed error, exception, cancellation).  A write to a
\* caller that has disconnected forwards nothing, reads nothing more from
\* upstream and ends the handler, and the upstream response is then released.
C14_ReleasedAtExit ==
    \A r \in DOMAIN pc : Finished(r) => ~upstream_open[r]

C14_FailedWriteStep ==
    \A r \in DOMAIN pc :
        /\ (pc[r] \in {"relay", "write"} /\ caller[r] = "gone")
            => written'[r] = written[r]
        /\ (pc[r] = "write" /\ caller[r] = "gone")
            => /\ recvd'[r] = recvd[r]
               /\ pc'[r] \in {"write", "aborted"}
        /\ pc[r] = "aborted"
            => /\ pc'[r] = "aborted"
               /\ recvd'[r] = recvd[r]
               /\ eof'[r] = eof[r]

C14_DisconnectReleases ==
    /\ []C14_ReleasedAtExit
    /\ [][C14_FailedWriteStep]_vars
    /\ \A r \in Slots :
          (pc[r] = "write" /\ caller[r] = "gone")
              ~> (pc[r] = "aborted" /\ ~upstream_open[r])

C14_Witness ==
    \E r \in DOMAIN pc :
        /\ pc[r] = "aborted"
        /\ caller[r] = "gone"
        /\ fault[r] = "none"
        /\ written[r] # <<>>
        /\ written[r] # Concat(NonEmptyChunks(Received(r)))
        /\ ~upstream_open[r]

\* the handler is past the point where the shape of the response is chosen
ShapeChosen(r) ==
    pc[r] \in {"stream_error", "stream_prepare", "relay", "write",
               "buffered_read"}
        \/ (Finished(r) /\ resp[r].status # 0)

\* C16: a chat completion gets one response shape, chosen once: the
\* classification is made before the upstream call and never changes; the
\* response is streamed iff the request was classified streaming and the
\* upstream status is < 400, and buffered otherwise; once the stream is
\* prepared its head stays and no buffered response is produced.
C16_ShapeState ==
    \A r \in DOMAIN pc :
        /\ (IsChat(r) /\ upstream_requests[r] # <<>>) => stream[r] # <<"unset">>
        /\ ~IsChat(r) => (stream[r] = <<"unset">> /\ ~prepared(r))
        /\ (IsChat(r) /\ ShapeChosen(r))
            => /\ (response[r].kind = "stream")
                    <=> (ClassifiedStreaming(r) /\ resp[r].status < 400)
               /\ pc[r] \in {"done", "aborted"}
                    => (prepared(r) <=> response[r].kind = "stream")
               /\ (pc[r] = "done" /\ response[r].kind # "stream")
                    => response[r].kind \in {"buffered", "server_error"}
        /\ prepared(r) => (response[r].kind = "stream" /\ head[r] = response[r])

C16_ShapeStep ==
    \A r \in DOMAIN pc :
        /\ stream[r] # <<"unset">> => stream'[r] = stream[r]
        /\ prepared(r) => head'[r] = head[r]
        /\ response[r].kind # "none" => response'[r].kind = response[r].kind

C16_OneShape == []C16_ShapeState /\ [][C16_ShapeStep]_vars

C16_Witness ==
    \E r \in DOMAIN pc :
        /\ IsChat(r)
        /\ pc[r] = "done"
        /\ ClassifiedStreaming(r)
        /\ resp[r].status = 200
        /\ prepared(r)
        /\ eof[r] = 1

\* C18: the body that do_chat_completion sends upstream is the inbound body,
\* unchanged, in the streaming and in the non-streaming branch, whatever the
\* classification found (a body that is no JSON included).
C18_BodyForwardedIntact ==
    \A r \in DOMAIN pc :
        (IsChat(r) /\ pc[r] \in {"stream_await", "buffered_await"})
            => /\ Len(upstream_requests[r]) = 1
               /\ upstream_requests[r][1].method = "POST"
               /\ upstream_requests[r][1].body = request[r].body

C18_Witness ==
    \E r \in DOMAIN pc :
        /\ IsChat(r)
        /\ pc[r] = "buffered_await"
        /\ ~json_loads(request[r].body).ok
        /\ request[r].body # <<>>
        /\ upstream_requests[r][1].body = request[r].body

Slot(r) ==
    <<pc[r], request[r], headers[r], stream[r], upstream_requests[r], resp[r],
      recvd[r], chunk[r], response[r], head[r], written[r], eof[r],
      upstream_open[r], caller[r], clock[r], fault[r]>>

\* C17: with two requests in flight and their steps interleaved in every
\* order, each caller is sent the status, media type and chunks of its own
\* upstream response, in that response's order; a step of one handler changes
\* nothing that belongs to the other request and nothing that is shared (the
\* session is only used).
C17_OwnResponse ==
    \A r \in DOMAIN pc :
        /\ pc[r] = "idle" => resp[r] = NoUpstream
        /\ prepared(r)
            => /\ head[r].status = resp[r].status
               /\ IsPrefix(written[r], Concat(NonEmptyChunks(Received(r))))
               /\ Done(r) => written[r] = UpstreamBody(r)
        /\ (Done(r) /\ response[r].kind = "buffered")
            => /\ response[r].status = resp[r].status
               /\ response[r].mime = UpstreamMediaType(r)
               /\ response[r].body = UpstreamBody(r)

C17_OneSlotStep ==
    /\ \A r1, r2 \in DOMAIN pc :
          (r1 # r2 /\ Slot(r1)' # Slot(r1)) => Slot(r2)' = Slot(r2)
    /\ (\E r \in DOMAIN pc : Slot(r)' # Slot(r))
          => (session' = session /\ server' = server)

C17_Isolation == []C17_OwnResponse /\ [][C17_OneSlotStep]_vars

C17_Witness ==
    \E r1, r2 \in DOMAIN pc :
        /\ r1 # r2
        /\ pc[r1] = "write" /\ pc[r2] = "relay"
        /\ written[r1] = <<65>> /\ chunk[r1] = <<233>>
        /\ written[r2] = <<233>>
        /\ resp[r1].chunks = << <<65>>, <<233>> >>
        /\ resp[r2].chunks = << <<233>>, <<65>> >>

\* C19: the streaming upstream call has no client-side timeout: a stream is
\* never ended by the proxy because of the time that has passed.
C19_StreamNeverTimedOut ==
    \A r \in DOMAIN pc :
        (IsChat(r) /\ ClassifiedStreaming(r)) => fault[r] # "timeout"

\* C19, the other half: a model-listing call that gets no answer is ended by
\* the timeout of the session.
C19_ModelsCallBounded ==
    \A r \in Slots :
        (request[r].path = "/v1/models" /\ AwaitsUpstream(r)) ~> Finished(r)

\* a stream that was sending chunks is cut by the timer of the session
C19_StreamCut ==
    \E r \in DOMAIN pc :
        /\ ClassifiedStreaming(r)
        /\ fault[r] = "timeout"
        /\ pc[r] = "aborted"
        /\ written[r] # <<>>
        /\ clock[r] >= TotalTimeout

====
